---- MODULE Spec2Model ----
(***************************************************************************)
(* TwoWire (libraries/Wire/Wire.cpp): the master transaction engine        *)
(* (beginTransmission / write / endTransmission, requestFrom), the slave   *)
(* event dispatcher (onService) and the timeout recovery (setClock).       *)
(*                                                                         *)
(* Every public method is one action.  What the SERCOM adapter answers     *)
(* (address acknowledged, bus ownership, byte acknowledged, timeout, the   *)
(* bytes it delivers, the slave condition flags) is an input of the action,*)
(* drawn with \E.  The adapter calls the method makes are recorded, in     *)
(* order, in `calls`; the user callbacks it invokes in `callbacks`.        *)
(***************************************************************************)
EXTENDS Integers, Sequences, FiniteSets, TLC

VARIABLES
  transmissionBegun,   \* bool TwoWire::transmissionBegun
  txAddress,           \* uint8_t TwoWire::txAddress
  activeBaudrate,      \* uint32_t TwoWire::activeBaudrate
  txBuffer,            \* RingBuffer TwoWire::txBuffer, oldest byte first
  rxBuffer,            \* RingBuffer TwoWire::rxBuffer, oldest byte first
  onReceiveCallback,   \* TRUE when a receive callback is registered
  onRequestCallback,   \* TRUE when a request callback is registered
  slaveMode,           \* the adapter's role, what sercom->isSlaveWIRE() reads
  calls,               \* adapter calls made by the most recent method, in order
  callbacks,           \* user callbacks invoked by the most recent method
  last,                \* the most recent method: its name, arguments, result
  written,             \* bytes write() accepted in master role since the last
                       \* beginTransmission
  storing              \* the byte a write(byte) that passed its test is about
                       \* to store, as a one-element sequence; <<>> when none

vars == <<transmissionBegun, txAddress, activeBaudrate, txBuffer, rxBuffer,
          onReceiveCallback, onRequestCallback, slaveMode, calls, callbacks,
          last, written, storing>>

---------------------------------------------------------------------------
(* Bounds and value sets *)

\* capacity of a byte queue (the model's bound on RingBuffer's size)
Capacity == 3

\* data bytes that the application writes and the bus delivers
Bytes == {1, 2}

\* 7-bit target addresses used by the master operations
Addrs == {80}

\* the default clock rate begin() programs
TWI_CLOCK == 100000

\* clock rates the application passes to setClock
Bauds == {TWI_CLOCK, 400000}

\* the underrun byte the slave sends when its tx queue is empty
Filler == 255

\* largest quantity asked of requestFrom: one beyond the rx queue's capacity
MaxQuantity == Capacity + 1

\* most bytes accepted by write() within one open transaction
MaxWritten == Capacity + 1

\* most bytes the request callback writes
MaxReply == 2

B2I(b) == IF b THEN 1 ELSE 0

Uint8(n) == n % 256

\* one adapter call: its name, its argument (0 when none), its result
\* (1/0 for true/false, the byte for a read, 0 for void)
Call(name, arg, ret) == [call |-> name, arg |-> arg, ret |-> ret]

\* the record kept of the most recent method
Op(name, arg, quantity, stopBit, ret) ==
  [op |-> name, arg |-> arg, quantity |-> quantity, stopBit |-> stopBit, ret |-> ret]

---------------------------------------------------------------------------
(* Byte Queue (RingBuffer), by its contract *)

clear == <<>>

available(q) == Len(q)

isFull(q) == Len(q) = Capacity

\* fails silently when full
store_char(q, c) == IF isFull(q) THEN q ELSE Append(q, c)

\* -1 when empty, else the oldest byte, which is removed
read_char(q) ==
  IF q = <<>> THEN [c |-> -1, q |-> q] ELSE [c |-> Head(q), q |-> Tail(q)]

peek_char(q) == IF q = <<>> THEN -1 ELSE Head(q)

---------------------------------------------------------------------------
(* Construction *)

Init ==
  /\ transmissionBegun = FALSE
  /\ txAddress = 0
  /\ activeBaudrate = 0
  /\ txBuffer = clear
  /\ rxBuffer = clear
  /\ onReceiveCallback = FALSE
  /\ onRequestCallback = FALSE
  /\ slaveMode = FALSE
  /\ calls = <<>>
  /\ callbacks = <<>>
  /\ last = Op("TwoWire", 0, 0, FALSE, 0)
  /\ written = <<>>
  /\ storing = <<>>

---------------------------------------------------------------------------
(* Configuration: begin, setClock, end, onReceive, onRequest *)

\* the adapter calls of setClock: disable, reinitialise as master, enable
setClockCallsDefault(baudrate) ==
  << Call("disableWIRE", 0, 0),
     Call("initMasterWIRE", TWI_CLOCK, 0),
     Call("enableWIRE", 0, 0) >>
setClockCalls(baudrate) ==
  << Call("disableWIRE", 0, 0),
     Call("initMasterWIRE", baudrate, 0),
     Call("enableWIRE", 0, 0) >>

\* void TwoWire::begin(void)
begin ==
  /\ activeBaudrate' = TWI_CLOCK
  /\ slaveMode' = FALSE
  /\ calls' = << Call("initMasterWIRE", TWI_CLOCK, 0), Call("enableWIRE", 0, 0) >>
  /\ callbacks' = <<>>
  /\ last' = Op("begin", 0, 0, FALSE, 0)
  /\ UNCHANGED <<transmissionBegun, txAddress, txBuffer, rxBuffer,
                 onReceiveCallback, onRequestCallback, written,
                 storing>>

\* void TwoWire::begin(uint8_t address, bool enableGeneralCall)
beginSlave(address) ==
  /\ slaveMode' = TRUE
  /\ calls' = << Call("initSlaveWIRE", address, 0), Call("enableWIRE", 0, 0) >>
  /\ callbacks' = <<>>
  /\ last' = Op("beginSlave", address, 0, FALSE, 0)
  /\ UNCHANGED <<transmissionBegun, txAddress, activeBaudrate, txBuffer, rxBuffer,
                 onReceiveCallback, onRequestCallback, written,
                 storing>>

\* void TwoWire::setClock(uint32_t baudrate)
setClock(baudrate) ==
  /\ activeBaudrate' = baudrate
  /\ slaveMode' = FALSE
  /\ calls' = setClockCalls(baudrate)
  /\ callbacks' = <<>>
  /\ last' = Op("setClock", baudrate, 0, FALSE, 0)
  /\ UNCHANGED <<transmissionBegun, txAddress, txBuffer, rxBuffer,
                 onReceiveCallback, onRequestCallback, written,
                 storing>>

\* void TwoWire::onReceive(void(*function)(int))
onReceive ==
  /\ onReceiveCallback' = TRUE
  /\ calls' = <<>>
  /\ callbacks' = <<>>
  /\ last' = Op("onReceive", 0, 0, FALSE, 0)
  /\ UNCHANGED <<transmissionBegun, txAddress, activeBaudrate, txBuffer, rxBuffer,
                 onRequestCallback, slaveMode, written,
                 storing>>

\* void TwoWire::onRequest(void(*function)(void))
onRequest ==
  /\ onRequestCallback' = TRUE
  /\ calls' = <<>>
  /\ callbacks' = <<>>
  /\ last' = Op("onRequest", 0, 0, FALSE, 0)
  /\ UNCHANGED <<transmissionBegun, txAddress, activeBaudrate, txBuffer, rxBuffer,
                 onReceiveCallback, slaveMode, written,
                 storing>>

---------------------------------------------------------------------------
(* Master write: beginTransmission, write, endTransmission *)

\* void TwoWire::beginTransmission(uint8_t address)
beginTransmission(address) ==
  /\ txAddress' = address
  /\ txBuffer' = clear
  /\ transmissionBegun' = TRUE
  /\ written' = <<>>
  /\ calls' = <<>>
  /\ callbacks' = <<>>
  /\ last' = Op("beginTransmission", address, 0, FALSE, 0)
  /\ UNCHANGED <<activeBaudrate, rxBuffer, onReceiveCallback, onRequestCallback,
                 slaveMode,
                 storing>>

\* the test of write(uint8_t): no writing without a begun transmission or
\* with a full buffer
writeRefusedWhenFull(begun, tx) == isFull(tx)
writeRefused(begun, tx) == ~begun \/ isFull(tx)

\* size_t TwoWire::write(uint8_t ucData): the value returned and the tx queue left
writeByte(begun, tx, ucData) ==
  IF writeRefused(begun, tx)
    THEN [ret |-> 0, tx |-> tx]
    ELSE [ret |-> 1, tx |-> store_char(tx, ucData)]

\* size_t TwoWire::write(const uint8_t *data, size_t quantity): the loop from
\* index i on; returns i at the first byte that write() refuses
RECURSIVE writeAll(_, _, _, _)
writeAll(begun, tx, data, i) ==
  IF i >= Len(data)
    THEN [ret |-> Len(data), tx |-> tx]
    ELSE LET w == writeByte(begun, tx, data[i + 1])
         IN IF w.ret = 0 THEN [ret |-> i, tx |-> tx]
                         ELSE writeAll(begun, w.tx, data, i + 1)

\* `written` gains the bytes that write() accepted: the first n of data
noteWritten(data, n) == IF slaveMode THEN written ELSE written \o SubSeq(data, 1, n)

write(ucData) ==
  \E w \in { writeByte(transmissionBegun, txBuffer, ucData) } :
    /\ Len(noteWritten(<<ucData>>, w.ret)) <= MaxWritten
    /\ txBuffer' = w.tx
    /\ last' = Op("write", ucData, 1, FALSE, w.ret)
    /\ written' = noteWritten(<<ucData>>, w.ret)
    /\ calls' = <<>>
    /\ callbacks' = <<>>
    /\ UNCHANGED <<transmissionBegun, txAddress, activeBaudrate, rxBuffer,
                   onReceiveCallback, onRequestCallback, slaveMode,
                 storing>>

writeBulk(data) ==
  \E w \in { writeAll(transmissionBegun, txBuffer, data, 0) } :
    /\ Len(noteWritten(data, w.ret)) <= MaxWritten
    /\ txBuffer' = w.tx
    /\ last' = Op("writeBulk", 0, Len(data), FALSE, w.ret)
    /\ written' = noteWritten(data, w.ret)
    /\ calls' = <<>>
    /\ callbacks' = <<>>
    /\ UNCHANGED <<transmissionBegun, txAddress, activeBaudrate, rxBuffer,
                   onReceiveCallback, onRequestCallback, slaveMode,
                 storing>>

\* write(uint8_t) up to its test, when an interrupt may come between the test
\* and the store: a refused write returns 0, an admitted one goes on to store
writeTest(ucData) ==
  /\ storing = <<>>
  /\ IF writeRefused(transmissionBegun, txBuffer)
       THEN /\ last' = Op("write", ucData, 1, FALSE, 0)
            /\ UNCHANGED storing
       ELSE /\ last' = Op("writeTest", ucData, 1, FALSE, 0)
            /\ storing' = <<ucData>>
  /\ calls' = <<>>
  /\ callbacks' = <<>>
  /\ UNCHANGED <<transmissionBegun, txAddress, activeBaudrate, txBuffer, rxBuffer,
                 onReceiveCallback, onRequestCallback, slaveMode, written>>

\* the rest of an admitted write(uint8_t): txBuffer.store_char(ucData); return 1
writeStore ==
  /\ storing # <<>>
  /\ txBuffer' = store_char(txBuffer, storing[1])
  /\ storing' = <<>>
  /\ last' = Op("writeStore", storing[1], 1, FALSE, 1)
  /\ calls' = <<>>
  /\ callbacks' = <<>>
  /\ UNCHANGED <<transmissionBegun, txAddress, activeBaudrate, rxBuffer,
                 onReceiveCallback, onRequestCallback, slaveMode, written>>

\* errCode after the address phase: 2 when startTransmissionWIRE fails
addressErrorNone(startOk) == 0
addressError(startOk) == IF ~startOk THEN 2 ELSE 0

\* the byte handed to sendDataMasterWIRE: txBuffer.read_char()
nextToSendNewest(tx) == [c |-> tx[Len(tx)], q |-> SubSeq(tx, 1, Len(tx) - 1)]
nextToSend(tx) == read_char(tx)

\* the while loop "Send all buffer" of endTransmission. i numbers the
\* iterations from 1; the adapter loses the bus at iteration lostAt and
\* rejects the byte of iteration nackAt (0: never). busOwner keeps the value
\* it had when the loop test does not reach the assignment.
RECURSIVE sendAll(_, _, _, _, _, _)
sendAll(tx, busOwner, log, i, lostAt, nackAt) ==
  IF available(tx) = 0
    THEN [tx |-> tx, busOwner |-> busOwner, errCode |-> 0, calls |-> log]
    ELSE LET own  == i # lostAt
             log1 == Append(log, Call("isBusOwnerWIRE", 0, B2I(own)))
         IN IF ~own
              THEN [tx |-> tx, busOwner |-> FALSE, errCode |-> 0, calls |-> log1]
              ELSE LET ack  == i # nackAt
                       r    == nextToSend(tx)
                       log2 == Append(log1, Call("sendDataMasterWIRE", r.c, B2I(ack)))
                   IN IF ~ack
                        THEN [tx |-> clear, busOwner |-> TRUE, errCode |-> 3,
                              calls |-> log2]
                        ELSE sendAll(r.q, TRUE, log2, i + 1, lostAt, nackAt)

\* "Send Stop if we still have control of the bus, or hit an error"
stopAfterWriteOnError(stopBit, busOwner, errCode) == errCode # 0
stopAfterWriteOwned(stopBit, busOwner, errCode) == stopBit /\ busOwner
stopAfterWrite(stopBit, busOwner, errCode) == (stopBit /\ busOwner) \/ errCode # 0

\* uint8_t TwoWire::endTransmission(bool stopBit), against an adapter that
\* answers startOk to the address phase, lostAt / nackAt in the data phase
\* and timeout to didTimeout(); garbage is the value the uninitialised local
\* busOwner happens to hold.
endTransmissionResult(tx, address, baud, stopBit, startOk, lostAt, nackAt, timeout, garbage) ==
  LET log0   == << Call("startTransmissionWIRE_WRITE", address, B2I(startOk)) >>
      err0   == addressError(startOk)
      sent   == IF err0 = 0
                  THEN sendAll(tx, garbage, log0, 1, lostAt, nackAt)
                  ELSE [tx |-> tx, busOwner |-> garbage, errCode |-> err0, calls |-> log0]
      log1   == IF stopAfterWrite(stopBit, sent.busOwner, sent.errCode)
                  THEN Append(sent.calls, Call("prepareCommandBitsWire_STOP", 0, 0))
                  ELSE sent.calls
      log2   == Append(log1, Call("didTimeout", 0, B2I(timeout)))
  IN IF timeout
       THEN [tx |-> sent.tx, errCode |-> 4, baud |-> baud,
             calls |-> log2 \o setClockCalls(baud), reset |-> TRUE]
       ELSE [tx |-> sent.tx, errCode |-> sent.errCode, baud |-> baud,
             calls |-> log2, reset |-> FALSE]

endTransmission(stopBit, startOk, lostAt, nackAt, timeout, garbage) ==
  \E r \in { endTransmissionResult(txBuffer, txAddress, activeBaudrate, stopBit,
                                   startOk, lostAt, nackAt, timeout, garbage) } :
     /\ transmissionBegun' = FALSE
     /\ txBuffer' = r.tx
     /\ activeBaudrate' = r.baud
     /\ slaveMode' = IF r.reset THEN FALSE ELSE slaveMode
     /\ calls' = r.calls
     /\ callbacks' = <<>>
     /\ last' = Op("endTransmission", txAddress, 0, stopBit, r.errCode)
     /\ UNCHANGED <<txAddress, rxBuffer, onReceiveCallback, onRequestCallback,
                    written,
                 storing>>

---------------------------------------------------------------------------
(* Master read: requestFrom, available, read, peek *)

\* What didTimeout() answers once `reads` bytes have been read from the
\* adapter: the timeout flag is raised by the adapter operation numbered
\* timeoutAt (0: the address phase, k: the k-th readDataWIRE) and stays raised;
\* a timeoutAt beyond the reads made is no timeout.
didTimeout(timeoutAt, reads) == timeoutAt <= reads

\* the read count after the loop: "last read byte was garbage/invalid"
discardLastAlways(byteRead, busOwner, timedOut) == byteRead - 1
discardLast(byteRead, busOwner, timedOut) ==
  IF ~busOwner \/ timedOut THEN byteRead - 1 ELSE byteRead

\* the for loop of requestFrom, entered with byteRead = 1 after the first
\* byte was stored. data[k] is the k-th byte the adapter delivers, lostAt the
\* value of byteRead at which isBusOwnerWIRE() answers false (0: never).
\* busOwner keeps the value it had when the loop test does not reach the
\* assignment.
RECURSIVE readMore(_, _, _, _, _, _, _, _)
readMore(rx, byteRead, busOwner, log, quantity, data, lostAt, timeoutAt) ==
  IF ~(byteRead < quantity)
    THEN [rx |-> rx, byteRead |-> byteRead, busOwner |-> busOwner, calls |-> log]
    ELSE
      LET t    == didTimeout(timeoutAt, byteRead)
          log1 == Append(log, Call("didTimeout", 0, B2I(t)))
      IN IF t
           THEN [rx |-> rx, byteRead |-> byteRead, busOwner |-> busOwner,
                 calls |-> log1]
           ELSE
             LET own  == byteRead # lostAt
                 log2 == Append(log1, Call("isBusOwnerWIRE", 0, B2I(own)))
             IN IF ~own
                  THEN [rx |-> rx, byteRead |-> byteRead, busOwner |-> FALSE,
                        calls |-> log2]
                  ELSE
                    LET c    == data[byteRead + 1]
                        log3 == log2 \o
                                << Call("prepareAckBitWIRE", 0, 0),
                                   Call("prepareCommandBitsWire_READ", 0, 0) >> \o
                                (IF quantity > 1
                                   THEN << Call("readDataWIRE", 0, c) >>
                                   ELSE << >>)
                        rx1  == IF quantity > 1 THEN store_char(rx, c) ELSE rx
                    IN readMore(rx1, byteRead + 1, TRUE, log3, quantity, data,
                                lostAt, timeoutAt)

\* the block run when startTransmissionWIRE(address, WIRE_READ_FLAG) succeeds
connected(log, quantity, data, lostAt, timeoutAt, garbage) ==
  LET first == store_char(clear, data[1])
      log1  == Append(log, Call("readDataWIRE", 0, data[1]))
      loop  == readMore(first, 1, garbage, log1, quantity, data, lostAt, timeoutAt)
      log2  == Append(loop.calls, Call("prepareNackBitWIRE", 0, 0))
      t     == didTimeout(timeoutAt, loop.byteRead)
      \* !busOwner || sercom->didTimeout(): the query is made only when busOwner
      log3  == IF loop.busOwner
                 THEN Append(log2, Call("didTimeout", 0, B2I(t)))
                 ELSE log2
  IN [rx |-> loop.rx, reads |-> loop.byteRead, busOwner |-> loop.busOwner,
      byteRead |-> discardLast(loop.byteRead, loop.busOwner, t), calls |-> log3]

\* "Send Stop if we still have control of the bus, or hit a timeout"
stopAfterReadUnowned(stopBit, busOwner, timedOut) == stopBit \/ timedOut
stopAfterRead(stopBit, busOwner, timedOut) == (stopBit /\ busOwner) \/ timedOut

\* uint8_t TwoWire::requestFrom(uint8_t address, size_t quantity, bool stopBit)
\* for quantity >= 1, against an adapter that answers startOk to the address
\* phase; garbage is the value the uninitialised local busOwner happens to hold.
requestFromResult(address, quantity, stopBit, baud, startOk, data, lostAt, timeoutAt, garbage) ==
  LET log0 == << Call("startTransmissionWIRE_READ", address, B2I(startOk)) >>
      body == IF startOk
                THEN connected(log0, quantity, data, lostAt, timeoutAt, garbage)
                ELSE [rx |-> clear, reads |-> 0, busOwner |-> garbage,
                      byteRead |-> 0, calls |-> log0]
      t    == didTimeout(timeoutAt, body.reads)
      \* (stopBit && busOwner) || sercom->didTimeout()
      log1 == IF stopBit /\ body.busOwner
                THEN body.calls
                ELSE Append(body.calls, Call("didTimeout", 0, B2I(t)))
      log2 == IF stopAfterRead(stopBit, body.busOwner, t)
                THEN Append(log1, Call("prepareCommandBitsWire_STOP", 0, 0))
                ELSE log1
      log3 == Append(log2, Call("didTimeout", 0, B2I(t)))
  IN IF t
       THEN [rx |-> body.rx, ret |-> 0, reset |-> TRUE,
             calls |-> log3 \o setClockCalls(baud)]
       ELSE [rx |-> body.rx, ret |-> Uint8(body.byteRead), reset |-> FALSE,
             calls |-> log3]

\* quantity == 0: return 0 before anything else
requestNothingClears(address, stopBit) ==
  /\ rxBuffer' = clear
  /\ calls' = <<>>
  /\ callbacks' = <<>>
  /\ last' = Op("requestFrom", address, 0, stopBit, 0)
  /\ UNCHANGED <<transmissionBegun, txAddress, activeBaudrate, txBuffer,
                 onReceiveCallback, onRequestCallback, slaveMode, written,
                 storing>>
requestNothing(address, stopBit) ==
  /\ calls' = <<>>
  /\ callbacks' = <<>>
  /\ last' = Op("requestFrom", address, 0, stopBit, 0)
  /\ UNCHANGED <<transmissionBegun, txAddress, activeBaudrate, txBuffer, rxBuffer,
                 onReceiveCallback, onRequestCallback, slaveMode, written,
                 storing>>

requestFrom(address, quantity, stopBit, startOk, data, lostAt, timeoutAt, garbage) ==
  IF quantity = 0
    THEN requestNothing(address, stopBit)
    ELSE
      \E r \in { requestFromResult(address, quantity, stopBit, activeBaudrate,
                                   startOk, data, lostAt, timeoutAt, garbage) } :
         /\ rxBuffer' = r.rx
         /\ transmissionBegun' = IF r.reset THEN FALSE ELSE transmissionBegun
         /\ slaveMode' = IF r.reset THEN FALSE ELSE slaveMode
         /\ calls' = r.calls
         /\ callbacks' = <<>>
         /\ last' = Op("requestFrom", address, quantity, stopBit, r.ret)
         /\ UNCHANGED <<txAddress, activeBaudrate, txBuffer, onReceiveCallback,
                        onRequestCallback, written,
                 storing>>

\* int TwoWire::available(void)
availableRx ==
  /\ calls' = <<>>
  /\ callbacks' = <<>>
  /\ last' = Op("available", 0, 0, FALSE, available(rxBuffer))
  /\ UNCHANGED <<transmissionBegun, txAddress, activeBaudrate, txBuffer, rxBuffer,
                 onReceiveCallback, onRequestCallback, slaveMode, written,
                 storing>>

\* int TwoWire::read(void)
read ==
  /\ rxBuffer' = read_char(rxBuffer).q
  /\ calls' = <<>>
  /\ callbacks' = <<>>
  /\ last' = Op("read", 0, 0, FALSE, read_char(rxBuffer).c)
  /\ UNCHANGED <<transmissionBegun, txAddress, activeBaudrate, txBuffer,
                 onReceiveCallback, onRequestCallback, slaveMode, written,
                 storing>>

\* int TwoWire::peek(void)
peek ==
  /\ calls' = <<>>
  /\ callbacks' = <<>>
  /\ last' = Op("peek", 0, 0, FALSE, peek_char(rxBuffer))
  /\ UNCHANGED <<transmissionBegun, txAddress, activeBaudrate, txBuffer, rxBuffer,
                 onReceiveCallback, onRequestCallback, slaveMode, written,
                 storing>>

---------------------------------------------------------------------------
(* Slave event dispatcher: onService *)

\* the conditions the adapter reports to one invocation of the dispatcher
Flags ==
  [stop : BOOLEAN, match : BOOLEAN, restart : BOOLEAN, masterRead : BOOLEAN,
   dataReady : BOOLEAN]

\* the branch onService takes, in the priority order of its if / else-if chain
stopOrRestart(f) == f.stop \/ (f.match /\ f.restart /\ ~f.masterRead)

classify(slave, f) ==
  IF ~slave THEN "none"
  ELSE IF stopOrRestart(f) THEN (IF f.stop THEN "stop" ELSE "restart")
  ELSE IF f.match THEN (IF f.masterRead THEN "matchRead" ELSE "matchWrite")
  ELSE IF f.dataReady THEN (IF f.masterRead THEN "dataRead" ELSE "dataWrite")
  ELSE "none"

\* the byte sent when the master reads and the tx queue is empty
underrun == Filler

\* uint8_t c = 0xff; if (txBuffer.available()) c = txBuffer.read_char();
slaveBytePeeked(tx) ==
  IF available(tx) # 0 THEN [c |-> peek_char(tx), q |-> tx] ELSE [c |-> underrun, q |-> tx]
slaveByte(tx) ==
  IF available(tx) # 0 THEN read_char(tx) ELSE [c |-> underrun, q |-> tx]

\* the argument of the receive callback: available()
receiveCountCleared(rx) == available(clear)
receiveCount(rx) == available(rx)

\* if (rxBuffer.isFull()): the received byte is refused
rxRefusedNever(rx) == FALSE
rxRefused(rx) == isFull(rx)

\* One invocation of onService. f: the adapter's conditions; accepted: the
\* answer of sendDataSlaveWIRE; byte: what readDataWIRE delivers; reply:
\* the bytes the request callback passes to write(). The condition queries
\* are not recorded in `calls`, the commands are.
onServiceResult(slave, f, begun, tx, rx, hasReceive, hasRequest, accepted, byte, reply) ==
  LET kind == classify(slave, f)
      same == [kind |-> kind, begun |-> begun, tx |-> tx, rx |-> rx,
               calls |-> <<>>, callbacks |-> <<>>]
      ack  == << Call("prepareAckBitWIRE", 0, 0), Call("prepareCommandBitsWire_3", 0, 0) >>
  IN CASE kind \in {"stop", "restart"} ->
            [same EXCEPT !.calls = ack,
                         !.callbacks = IF hasReceive
                                         THEN << [cb |-> "onReceive", arg |-> receiveCount(rx)] >>
                                         ELSE << >>,
                         !.rx = clear]
       [] kind = "matchWrite" ->
            [same EXCEPT !.calls = ack]
       [] kind = "matchRead" ->
            LET w == IF hasRequest THEN writeAll(TRUE, clear, reply, 0)
                                   ELSE [ret |-> 0, tx |-> clear]
            IN [same EXCEPT !.calls = ack,
                            !.begun = TRUE,
                            !.tx = w.tx,
                            !.callbacks = IF hasRequest
                                            THEN << [cb |-> "onRequest", arg |-> 0] >>
                                            ELSE << >>]
       [] kind = "dataRead" ->
            LET r == slaveByte(tx)
            IN [same EXCEPT !.calls = << Call("sendDataSlaveWIRE", r.c, B2I(accepted)) >>,
                            !.tx = r.q,
                            !.begun = accepted]
       [] kind = "dataWrite" ->
            IF rxRefused(rx)
              THEN [same EXCEPT !.calls = << Call("prepareNackBitWIRE", 0, 0),
                                             Call("prepareCommandBitsWire_3", 0, 0) >>]
              ELSE [same EXCEPT !.calls = << Call("readDataWIRE", 0, byte),
                                             Call("prepareAckBitWIRE", 0, 0),
                                             Call("prepareCommandBitsWire_3", 0, 0) >>,
                                !.rx = store_char(rx, byte)]
       [] OTHER -> same

onService(f, accepted, byte, reply) ==
  \E r \in { onServiceResult(slaveMode, f, transmissionBegun, txBuffer, rxBuffer,
                             onReceiveCallback, onRequestCallback, accepted, byte,
                             reply) } :
    /\ transmissionBegun' = r.begun
    /\ txBuffer' = r.tx
    /\ rxBuffer' = r.rx
    /\ calls' = r.calls
    /\ callbacks' = r.callbacks
    /\ last' = Op("onService:" \o r.kind, 0, 0, FALSE, 0)
    /\ UNCHANGED <<txAddress, activeBaudrate, onReceiveCallback, onRequestCallback,
                   slaveMode, written,
                 storing>>

---------------------------------------------------------------------------
(* The controller in master role: begin(), then the master operations *)

\* sequences over S of length lo..hi
SeqsOf(S, lo, hi) == UNION { [1..n -> S] : n \in lo..hi }

\* What the adapter may do during the data phase of endTransmission with n
\* bytes queued: nothing, lose the bus at one iteration, or reject one byte.
\* Only the first of the two events is ever observed, so one is drawn at a
\* time. garbage is read only when the loop never tests the bus (n = 0).
WriteScripts(n) ==
  { [lostAt |-> 0, nackAt |-> 0, garbage |-> g] :
      g \in IF n = 0 THEN BOOLEAN ELSE {FALSE} } \cup
  { [lostAt |-> i, nackAt |-> 0, garbage |-> FALSE] : i \in 1..n } \cup
  { [lostAt |-> 0, nackAt |-> i, garbage |-> FALSE] : i \in 1..n }

\* the adapter that acknowledges every byte and keeps the bus
GoodWriteScripts(n) == { w \in WriteScripts(n) : w.lostAt = 0 /\ w.nackAt = 0 }

\* What the adapter may do once a read of `quantity` bytes is connected:
\* deliver every byte, lose the bus after b bytes, or raise the timeout flag
\* in operation t (0: the address phase). data holds the bytes it delivers
\* up to that event; quantity + 1 as timeoutAt is no timeout. garbage is read
\* only when the loop never tests the bus (quantity = 1, or a timeout seen
\* by its first test).
ReadScripts(quantity) ==
  { [data |-> d, lostAt |-> 0, timeoutAt |-> quantity + 1, garbage |-> g] :
      d \in [1..quantity -> Bytes],
      g \in IF quantity = 1 THEN BOOLEAN ELSE {FALSE} } \cup
  UNION { { [data |-> d, lostAt |-> b, timeoutAt |-> quantity + 1, garbage |-> FALSE] :
              d \in [1..b -> Bytes] } : b \in 1..(quantity - 1) } \cup
  UNION { { [data |-> d, lostAt |-> 0, timeoutAt |-> t, garbage |-> g] :
              d \in [1..(IF t = 0 THEN 1 ELSE t) -> Bytes],
              g \in IF quantity = 1 \/ t <= 1 THEN BOOLEAN ELSE {FALSE} } :
          t \in 0..quantity }

\* the adapter that delivers every byte, keeps the bus and never times out
GoodReadScripts(quantity) ==
  { r \in ReadScripts(quantity) : r.lostAt = 0 /\ r.timeoutAt = quantity + 1 }

\* the adapter that reports no timeout during a read, and may lose the bus;
\* the target repeats one byte, the values read having no part in what the
\* engine does next
LostReadScripts(quantity) ==
  { r \in ReadScripts(quantity) :
      /\ r.timeoutAt = quantity + 1
      /\ \A i \in DOMAIN r.data : r.data[i] = r.data[1] }

\* What the adapter may do when the address phase of a read fails
NoReadScripts(quantity) ==
  { [data |-> <<>>, lostAt |-> 0, timeoutAt |-> t, garbage |-> g] :
      t \in {0, quantity + 1}, g \in BOOLEAN }

\* the master write engine with its configuration
NextWrite ==
  \/ begin
  \/ \E baudrate \in Bauds : setClock(baudrate)
  \/ \E address \in Addrs : beginTransmission(address)
  \/ \E ucData \in Bytes : write(ucData)
  \/ \E data \in SeqsOf(Bytes, 0, MaxWritten) : writeBulk(data)
  \/ \E stopBit, startOk, timeout \in BOOLEAN :
       \E w \in WriteScripts(IF startOk THEN Len(txBuffer) ELSE 0) :
         endTransmission(stopBit, startOk, w.lostAt, w.nackAt, timeout, w.garbage)

Spec == Init /\ [][NextWrite]_vars

\* the master read engine; beginTransmission opens a write transaction
\* beside it
NextRead ==
  \/ begin
  \/ \E baudrate \in Bauds : setClock(baudrate)
  \/ \E address \in Addrs : beginTransmission(address)
  \/ \E address \in Addrs, quantity \in 0..MaxQuantity :
       \E stopBit, startOk \in BOOLEAN :
         \E r \in IF startOk THEN ReadScripts(quantity) ELSE NoReadScripts(quantity) :
           requestFrom(address, quantity, stopBit, startOk, r.data, r.lostAt,
                       r.timeoutAt, r.garbage)
  \/ availableRx
  \/ read
  \/ peek

SpecRead == Init /\ [][NextRead]_vars

\* both master engines against a target that acknowledges its address and
\* every byte, on a bus that is never lost and never times out
NextGood ==
  \/ begin
  \/ \E address \in Addrs : beginTransmission(address)
  \/ \E ucData \in Bytes : write(ucData)
  \/ \E stopBit \in BOOLEAN :
       \E w \in GoodWriteScripts(Len(txBuffer)) :
         endTransmission(stopBit, TRUE, w.lostAt, w.nackAt, FALSE, w.garbage)
  \/ \E address \in Addrs, quantity \in 0..Capacity :
       \E stopBit \in BOOLEAN :
         \E r \in GoodReadScripts(quantity) :
           requestFrom(address, quantity, stopBit, TRUE, r.data, r.lostAt,
                       r.timeoutAt, r.garbage)
  \/ read

SpecGood == Init /\ [][NextGood]_vars

\* both master engines on a shared bus: the target acknowledges its address,
\* and the adapter may lose the bus in either transfer, or see a byte rejected
\* or time out in a write
NextBus ==
  \/ begin
  \/ \E address \in Addrs : beginTransmission(address)
  \/ \E ucData \in Bytes : write(ucData)
  \/ \E stopBit, timeout \in BOOLEAN :
       \E w \in WriteScripts(Len(txBuffer)) :
         endTransmission(stopBit, TRUE, w.lostAt, w.nackAt, timeout, w.garbage)
  \/ \E address \in Addrs, quantity \in 1..Capacity :
       \E stopBit \in BOOLEAN :
         \E r \in LostReadScripts(quantity) :
           requestFrom(address, quantity, stopBit, TRUE, r.data, r.lostAt,
                       r.timeoutAt, r.garbage)

SpecBus == Init /\ [][NextBus]_vars

\* What one interrupt can bring: the adapter's conditions and, only where the
\* branch taken reads them, the answer of sendDataSlaveWIRE, the byte delivered
\* and the request callback's reply.
SlaveEvents(slave, hasRequest) ==
  UNION { { [f |-> f, accepted |-> a, byte |-> b, reply |-> d] :
              a \in IF classify(slave, f) = "dataRead" THEN BOOLEAN ELSE {TRUE},
              b \in IF classify(slave, f) = "dataWrite" THEN Bytes ELSE {1},
              d \in IF classify(slave, f) = "matchRead" /\ hasRequest
                      THEN SeqsOf(Bytes, 0, MaxReply) ELSE {<<>>} } :
          f \in Flags }

\* the controller in slave role: begin(address), the callbacks' registration,
\* the interrupts, and the main context writing and reading
NextSlave ==
  \/ \E address \in Addrs : beginSlave(address)
  \/ onReceive
  \/ onRequest
  \/ \E e \in SlaveEvents(slaveMode, onRequestCallback) :
       onService(e.f, e.accepted, e.byte, e.reply)
  \/ \E ucData \in Bytes : write(ucData)
  \/ read

SpecSlave == Init /\ [][NextSlave]_vars

\* the controller in slave role with the interrupt free to come between the
\* test and the store of a main-context write(byte); the main context makes
\* no other call while that write is under way
NextRace ==
  \/ storing = <<>> /\ \E address \in Addrs : beginSlave(address)
  \/ storing = <<>> /\ onRequest
  \/ \E e \in SlaveEvents(slaveMode, onRequestCallback) :
       onService(e.f, e.accepted, e.byte, e.reply)
  \/ \E ucData \in Bytes : writeTest(ucData)
  \/ writeStore

SpecRace == Init /\ [][NextRace]_vars

---------------------------------------------------------------------------
(* What the recorded adapter calls say *)

\* the calls of log with the given name, in order
Named(log, name) == SelectSeq(log, LAMBDA c : c.call = name)

Made(log, name) == \E i \in DOMAIN log : log[i].call = name

Args(log) == [i \in DOMAIN log |-> log[i].arg]

Rets(log) == [i \in DOMAIN log |-> log[i].ret]

\* the condition queries among the adapter calls; the rest are commands
Queries == {"isBusOwnerWIRE", "didTimeout"}

Commands(log) == SelectSeq(log, LAMBDA c : c.call \notin Queries)

AddressFailed(log) ==
  \E i \in DOMAIN log :
    /\ log[i].call \in {"startTransmissionWIRE_WRITE", "startTransmissionWIRE_READ"}
    /\ log[i].ret = 0

TimeoutReported(log) == \E i \in DOMAIN log : log[i].call = "didTimeout" /\ log[i].ret = 1

BusLost(log) == \E i \in DOMAIN log : log[i].call = "isBusOwnerWIRE" /\ log[i].ret = 0

ByteRejected(log) ==
  \E i \in DOMAIN log : log[i].call = "sendDataMasterWIRE" /\ log[i].ret = 0

\* the adapter acknowledged the address and every byte, kept the bus and
\* reported no timeout
WellBehaved(log) ==
  ~AddressFailed(log) /\ ~TimeoutReported(log) /\ ~BusLost(log) /\ ~ByteRejected(log)

\* the bytes handed to the adapter's master send operation, in order
MasterSent(log) == Args(Named(log, "sendDataMasterWIRE"))

\* the bytes the adapter delivered, in order
Delivered(log) == Rets(Named(log, "readDataWIRE"))

StopCommand == Call("prepareCommandBitsWire_STOP", 0, 0)

---------------------------------------------------------------------------
(* Claims *)

\* a write() made while a transaction is open and the tx queue has room is
\* recorded in `written`
C1_Recorded ==
  (last'.op = "write" /\ transmissionBegun /\ Len(txBuffer) < Capacity)
    => written' = Append(written, last'.arg)

\* an endTransmission that closes an open transaction against a well-behaved
\* adapter hands over exactly the written bytes, in the order written
C1_SentAsWritten ==
  (last'.op = "endTransmission" /\ transmissionBegun /\ WellBehaved(calls'))
    => MasterSent(calls') = written

\* C1: for every sequence of write() calls between beginTransmission and
\* endTransmission that fits the tx queue, the bytes handed to the adapter's
\* master send operation during endTransmission are exactly the written
\* bytes, in the order written, when every byte is acknowledged, the bus is
\* kept and no timeout occurs.
C1_WriteOrder == [][C1_Recorded /\ C1_SentAsWritten]_vars

C1_Witness ==
  /\ last.op = "endTransmission"
  /\ WellBehaved(calls)
  /\ Len(written) = Capacity
  /\ written[1] # written[2]
  /\ MasterSent(calls) = written

\* what write(byte) does in one step
C2_WriteStep ==
  last'.op = "write" =>
    IF ~transmissionBegun \/ Len(txBuffer) = Capacity
      THEN last'.ret = 0 /\ txBuffer' = txBuffer
      ELSE last'.ret = 1 /\ txBuffer' = Append(txBuffer, last'.arg)

\* C2: write(byte) returns 0 and leaves the tx queue unchanged while
\* transmissionBegun is false or the tx queue is full; otherwise it returns 1
\* and appends exactly one byte; the tx queue never holds more than its
\* capacity.
C2_WriteGuard == [][C2_WriteStep]_vars /\ [](Len(txBuffer) <= Capacity)

C2_Witness ==
  /\ last.op = "write"
  /\ last.ret = 0
  /\ transmissionBegun
  /\ Len(txBuffer) = Capacity

\* C3 as stated: whenever the address phase of endTransmission fails, the
\* return code is exactly 2 and no data byte is handed to the adapter.
C3_AddressNackIs2 ==
  (last.op = "endTransmission" /\ AddressFailed(calls))
    => (last.ret = 2 /\ MasterSent(calls) = <<>>)

\* C3 amended: whenever the address phase of endTransmission fails, no data
\* byte is handed to the adapter, and the return code is 2 unless the adapter
\* reports a timeout, in which case it is 4.
C3_AddressNack ==
  (last.op = "endTransmission" /\ AddressFailed(calls))
    => /\ MasterSent(calls) = <<>>
       /\ last.ret = IF TimeoutReported(calls) THEN 4 ELSE 2

C3_Witness ==
  /\ last.op = "endTransmission"
  /\ AddressFailed(calls)
  /\ ~TimeoutReported(calls)
  /\ last.ret = 2
  /\ Len(txBuffer) = Capacity

\* C4: whenever the adapter reports a timeout during requestFrom(address,
\* quantity >= 1, sendStop), the returned byte count is 0 and the rx queue is
\* empty when requestFrom returns.
C4_TimeoutLeavesRxEmpty ==
  (last.op = "requestFrom" /\ last.quantity >= 1 /\ TimeoutReported(calls))
    => (last.ret = 0 /\ available(rxBuffer) = 0)

\* C5: a requestFrom that returns without a timeout returns the number of
\* bytes the rx queue holds on return.
C5_ReturnsAvailable ==
  (last.op = "requestFrom" /\ last.quantity >= 1 /\ ~TimeoutReported(calls))
    => last.ret = available(rxBuffer)

\* the handling of a stop condition by one invocation of the dispatcher
C6_StopStep ==
  (last'.op = "onService:stop" /\ onReceiveCallback)
    => /\ callbacks' = << [cb |-> "onReceive", arg |-> available(rxBuffer)] >>
       /\ available(rxBuffer') = 0

\* C6: in slave role with a receive callback registered, every dispatcher
\* invocation that finds isStopDetected() true invokes the receive callback
\* exactly once, with the rx queue count of just before, and leaves the rx
\* queue empty.
C6_StopDelivers == [][C6_StopStep]_vars

C6_Witness ==
  /\ last.op = "onService:stop"
  /\ callbacks = << [cb |-> "onReceive", arg |-> Capacity] >>
  /\ rxBuffer = <<>>

\* the byte handed to the adapter's slave send operation by one invocation
C7_SendStep ==
  last'.op = "onService:dataRead" =>
    /\ Len(calls') = 1
    /\ calls'[1].call = "sendDataSlaveWIRE"
    /\ IF txBuffer # <<>>
         THEN calls'[1].arg = Head(txBuffer) /\ txBuffer' = Tail(txBuffer)
         ELSE calls'[1].arg = Filler /\ txBuffer' = <<>>

\* write(byte) puts an accepted byte behind the bytes already queued
C7_WriteStep ==
  (last'.op = "write" /\ last'.ret = 1) => txBuffer' = Append(txBuffer, last'.arg)

\* an address match for a master read leaves in the tx queue only what the
\* request callback wrote
C7_MatchStep ==
  (last'.op = "onService:matchRead" /\ callbacks' = <<>>) => txBuffer' = <<>>

\* C7: in slave role, a data-ready invocation with a master-read operation
\* hands the adapter the oldest byte of the tx queue and removes it, or 0xFF
\* with the queue left empty when the tx queue is empty; with write() queueing
\* behind the bytes already there, the bytes written after an address match
\* go out in FIFO order, with 0xFF only on underrun.
C7_SlaveSendsFifo == [][C7_SendStep /\ C7_WriteStep /\ C7_MatchStep]_vars

C7_Witness ==
  /\ last.op = "onService:dataRead"
  /\ calls = << Call("sendDataSlaveWIRE", Filler, 1) >>
  /\ transmissionBegun
  /\ txBuffer = <<>>

\* the commands of a complete write: start, the bytes, stop
C8_Frame(address, bytes) ==
  << Call("startTransmissionWIRE_WRITE", address, 1) >> \o
  [i \in DOMAIN bytes |-> Call("sendDataMasterWIRE", bytes[i], 1)] \o
  << StopCommand >>

C8_Step ==
  (/\ last'.op = "endTransmission"
   /\ last'.stopBit
   /\ transmissionBegun
   /\ Len(written) >= 1
   /\ WellBehaved(calls'))
    => /\ last'.ret = 0
       /\ Commands(calls') = C8_Frame(txAddress, written)

\* C8: beginTransmission(a); k successful write() calls, 1 <= k <= capacity;
\* endTransmission(true), against an adapter that acknowledges the address
\* and every byte, keeps the bus and does not time out, returns 0, and the
\* adapter sees one write-start for a, then the k byte sends, then one stop
\* command, in that order.
C8_CompleteWrite == [][C8_Step]_vars

C8_Witness ==
  /\ last.op = "endTransmission"
  /\ last.stopBit
  /\ last.ret = 0
  /\ Len(written) = Capacity
  /\ Commands(calls) = C8_Frame(txAddress, written)

\* a requestFrom(a, q, true) with 2 <= q <= capacity that met a well-behaved
\* adapter
C9_Case ==
  /\ last.op = "requestFrom"
  /\ last.stopBit
  /\ last.quantity >= 2
  /\ last.quantity <= Capacity
  /\ WellBehaved(calls)

C9_Returned ==
  C9_Case => /\ last.ret = last.quantity
             /\ available(rxBuffer) = last.quantity
             /\ rxBuffer = Delivered(calls)

\* read() returns the oldest byte of the rx queue and removes it, or -1
C9_ReadStep ==
  last'.op = "read" =>
    IF rxBuffer = <<>>
      THEN last'.ret = -1 /\ rxBuffer' = rxBuffer
      ELSE last'.ret = Head(rxBuffer) /\ rxBuffer' = Tail(rxBuffer)

\* C9: for 2 <= q <= rx capacity, requestFrom(a, q, true) against an adapter
\* that acknowledges the address, keeps the bus and does not time out returns
\* q and leaves the q delivered bytes in the rx queue, which read() returns
\* in the order delivered, then -1.
C9_CompleteRead == []C9_Returned /\ [][C9_ReadStep]_vars

C9_Witness ==
  /\ C9_Case
  /\ last.quantity = Capacity
  /\ last.ret = Capacity
  /\ rxBuffer = Delivered(calls)
  /\ rxBuffer[1] # rxBuffer[2]

C10_Step ==
  (last'.op = "requestFrom" /\ last'.quantity = 0)
    => /\ calls' = <<>>
       /\ last'.ret = 0
       /\ UNCHANGED <<rxBuffer, txBuffer, transmissionBegun>>

\* C10: requestFrom(address, 0, sendStop) makes no adapter call, returns 0 and
\* leaves the rx queue, the tx queue and transmissionBegun as they were.
C10_NothingRequested == [][C10_Step]_vars

C10_Witness ==
  /\ last.op = "requestFrom"
  /\ last.quantity = 0
  /\ last.ret = 0
  /\ calls = <<>>
  /\ rxBuffer # <<>>
  /\ txBuffer # <<>>
  /\ transmissionBegun

\* the stop commands among the recorded adapter calls
Stops(log) == Len(Named(log, "prepareCommandBitsWire_STOP"))

\* C11: endTransmission(sendStop) issues the stop command exactly when
\* (sendStop is true and the adapter never reported the bus lost) or an
\* address NACK or data NACK was recorded, for every number of queued bytes
\* including none; so with no byte queued, sendStop true, the address
\* acknowledged and the bus kept, exactly one stop command is issued.
C11_StopAfterWrite ==
  last.op = "endTransmission" =>
    Stops(calls) = IF \/ last.stopBit /\ ~BusLost(calls)
                      \/ AddressFailed(calls)
                      \/ ByteRejected(calls)
                     THEN 1 ELSE 0

\* C12: requestFrom(address, quantity >= 1, sendStop) issues the stop command
\* exactly when (sendStop is true and the adapter never reported the bus
\* lost) or a timeout was reported, for every quantity including 1.
C12_StopAfterRead ==
  (last.op = "requestFrom" /\ last.quantity >= 1) =>
    Stops(calls) = IF \/ last.stopBit /\ ~BusLost(calls)
                      \/ TimeoutReported(calls)
                     THEN 1 ELSE 0

\* activeBaudrate is the rate most recently configured by begin() or
\* setClock(rate)
C13_Rate ==
  /\ last'.op = "begin" => activeBaudrate' = TWI_CLOCK
  /\ last'.op = "setClock" => activeBaudrate' = last'.arg
  /\ last'.op \notin {"begin", "setClock"} => activeBaudrate' = activeBaudrate

\* the adapter calls that reset the bus at rate r
C13_Reset(r) ==
  << Call("disableWIRE", 0, 0), Call("initMasterWIRE", r, 0), Call("enableWIRE", 0, 0) >>

C13_Step ==
  (last'.op = "endTransmission" /\ TimeoutReported(calls'))
    => /\ last'.ret = 4
       /\ ~transmissionBegun'
       /\ Len(calls') >= 3
       /\ SubSeq(calls', Len(calls') - 2, Len(calls')) = C13_Reset(activeBaudrate)

\* C13: whenever the adapter reports a timeout when endTransmission checks
\* it, endTransmission returns 4 whatever error was recorded before,
\* transmissionBegun is false on return, and the adapter calls end with
\* disable, initMaster(r), enable, where r is the clock rate most recently
\* configured by begin() or setClock(rate).
C13_TimeoutResets == [][C13_Rate /\ C13_Step]_vars

C13_Witness ==
  /\ last.op = "endTransmission"
  /\ TimeoutReported(calls)
  /\ ByteRejected(calls)
  /\ last.ret = 4
  /\ ~transmissionBegun
  /\ activeBaudrate # TWI_CLOCK
  /\ SubSeq(calls, Len(calls) - 2, Len(calls)) = C13_Reset(activeBaudrate)

\* C14: in endTransmission, when the adapter fails to acknowledge a data byte
\* and no timeout is reported, the rejected byte is the last one handed to
\* the adapter, the tx queue is empty on return, exactly one stop command is
\* issued whatever the value of sendStop, and the return code is 3.
C14_DataNack ==
  (last.op = "endTransmission" /\ ByteRejected(calls) /\ ~TimeoutReported(calls))
    => LET sent == Named(calls, "sendDataMasterWIRE")
       IN /\ sent[Len(sent)].ret = 0
          /\ \A i \in 1..(Len(sent) - 1) : sent[i].ret = 1
          /\ txBuffer = <<>>
          /\ Stops(calls) = 1
          /\ last.ret = 3

C14_Witness ==
  /\ last.op = "endTransmission"
  /\ ~last.stopBit
  /\ ~TimeoutReported(calls)
  /\ Len(written) = Capacity
  /\ Rets(Named(calls, "sendDataMasterWIRE")) = <<1, 0>>
  /\ txBuffer = <<>>
  /\ Stops(calls) = 1
  /\ last.ret = 3

\* the adapter calls that clock the bus during a master transfer
C16_Shifting ==
  {"sendDataMasterWIRE", "prepareAckBitWIRE", "prepareCommandBitsWire_READ",
   "readDataWIRE"}

\* C16: once isBusOwnerWIRE() has answered false during endTransmission or
\* requestFrom, the operation hands no further byte to the adapter and issues
\* no further ACK, read command or byte read; and when no timeout and no NACK
\* is reported it issues no stop command.
C16_QuietAfterBusLost ==
  last.op \in {"endTransmission", "requestFrom"} =>
    /\ \A i \in DOMAIN calls :
         (calls[i].call = "isBusOwnerWIRE" /\ calls[i].ret = 0)
           => \A j \in (i + 1)..Len(calls) : calls[j].call \notin C16_Shifting
    /\ (/\ BusLost(calls)
        /\ ~TimeoutReported(calls)
        /\ ~AddressFailed(calls)
        /\ ~ByteRejected(calls)) => Stops(calls) = 0

C16_Witness ==
  /\ last.op = "requestFrom"
  /\ last.stopBit
  /\ last.quantity = Capacity
  /\ BusLost(calls)
  /\ ~TimeoutReported(calls)
  /\ Len(Delivered(calls)) = 2
  /\ Stops(calls) = 0
  /\ txBuffer # <<>>

\* transmissionBegun becomes true only by beginTransmission, by an address
\* match for a master read, or by the adapter accepting a byte of that read
C15_Opened ==
  (~transmissionBegun /\ transmissionBegun')
    => last'.op \in {"beginTransmission", "onService:matchRead", "onService:dataRead"}

\* endTransmission, and the stop or restart that ends a master read, leave
\* transmissionBegun false
C15_Closed ==
  last'.op \in {"endTransmission", "onService:stop", "onService:restart"}
    => ~transmissionBegun'

\* C15: transmissionBegun is true only while a write-side transaction is
\* open: from beginTransmission to the next endTransmission in master role,
\* from an address match for a master read to the stop or restart that ends
\* the read in slave role; after a stop condition transmissionBegun is false
\* (and write() therefore returns 0).
C15_BegunOnlyWhileOpen == [][C15_Opened /\ C15_Closed]_vars

\* what one data-ready invocation with a master-write operation does
C17_Step ==
  last'.op = "onService:dataWrite" =>
    IF Len(rxBuffer) = Capacity
      THEN /\ calls' = << Call("prepareNackBitWIRE", 0, 0),
                          Call("prepareCommandBitsWire_3", 0, 0) >>
           /\ rxBuffer' = rxBuffer
      ELSE /\ Len(calls') = 3
           /\ calls'[1].call = "readDataWIRE"
           /\ calls'[2] = Call("prepareAckBitWIRE", 0, 0)
           /\ calls'[3] = Call("prepareCommandBitsWire_3", 0, 0)
           /\ rxBuffer' = Append(rxBuffer, calls'[1].ret)

\* C17: in slave role, a data-ready invocation with a master-write operation
\* refuses the byte when the rx queue is full (NACK prepared, no byte read
\* from the adapter, rx queue unchanged) and otherwise reads exactly one byte
\* from the adapter, appends it to the rx queue and prepares ACK; in both
\* cases the completion command 0x03 comes last, and the rx queue never holds
\* more than its capacity.
C17_SlaveReceives == [][C17_Step]_vars /\ [](Len(rxBuffer) <= Capacity)

C17_Witness ==
  /\ last.op = "onService:dataWrite"
  /\ calls = << Call("prepareNackBitWIRE", 0, 0), Call("prepareCommandBitsWire_3", 0, 0) >>
  /\ Len(rxBuffer) = Capacity

\* C18: if endTransmission returns 0, every byte write() accepted since the
\* most recent beginTransmission was handed to the adapter and acknowledged,
\* and the tx queue is empty on return, whatever the adapter did.
C18_Step ==
  (last'.op = "endTransmission" /\ transmissionBegun /\ last'.ret = 0)
    => /\ MasterSent(calls') = written
       /\ ~ByteRejected(calls')
       /\ txBuffer' = <<>>

C18_SuccessMeansSent == [][C18_Step]_vars

\* C19: in slave role with both callbacks registered, whenever the request
\* callback is invoked (address match for a master read) the rx queue is
\* empty, every byte received before having been delivered through the
\* receive callback.
C19_RequestAfterDelivery ==
  (/\ last.op = "onService:matchRead"
   /\ onReceiveCallback
   /\ callbacks = << [cb |-> "onRequest", arg |-> 0] >>)
    => rxBuffer = <<>>

\* a main-context write(byte) appends its byte only where transmissionBegun is
\* true and the tx queue is not full
C20_Step ==
  (last'.op = "writeStore" /\ txBuffer' # txBuffer)
    => (transmissionBegun /\ Len(txBuffer) < Capacity)

\* C20: in slave role, with the dispatcher running atomically but able to
\* come between the test and the store of a main-context write(byte), a byte
\* is appended to the tx queue only in a state where transmissionBegun is true
\* and the tx queue is not full, and the tx queue never holds more than its
\* capacity.
C20_WriteUnderInterrupt == [][C20_Step]_vars /\ [](Len(txBuffer) <= Capacity)

====
